---- MODULE Spec2Model ----
(***************************************************************************)
(* omnifocus-to-taskwarrior.py as a state machine.                         *)
(*                                                                         *)
(* Text values (Name, Notes, project paths) are sequences of one-character  *)
(* strings so that title(), re.sub and join act on characters.  A tree      *)
(* identifier "1.2.1" is the sequence of its dot-separated segments         *)
(* <<"1","2","1">>.  A mapped record (a Python dict) is a function from     *)
(* its keys to values; a key that is not in the dict is not in DOMAIN.      *)
(* A call that may return a value, return None or raise yields a record     *)
(* [kind |-> "val" | "none" | "raise", ...].                                *)
(***************************************************************************)
EXTENDS Integers, Sequences, FiniteSets, TLC

VARIABLES
  options,            \* optparse result (module global)
  tz,                 \* the machine's local UTC offset in hours ('local')
  input,              \* the rows of the input file, header first
  csvfile,            \* rows the csv.reader has still to yield
  file_before,        \* lines of the output file before the run
  json_file,          \* lines of the output file
  column_names,       \* transform_data: header row, <<>> before it
  transformed_data,   \* the batch of mapped records (dicts, mutated in place)
  task_rows,          \* generate_json: references (indices) into the batch
  project_notes_rows, \* generate_json: [src, rec] synthesized Notes dicts
  emitted,            \* per write_json call: [kind, src, line], src the batch index
  idx,                \* loop position of the running loop
  uuids,              \* number of uuid.uuid4() calls so far
  clock,              \* number of current_time() calls so far
  pc,                 \* position in the main block
  err                 \* the unhandled exception, once pc = "failed"

vars == <<options, tz, input, csvfile, file_before, json_file, column_names,
          transformed_data, task_rows, project_notes_rows, emitted, idx,
          uuids, clock, pc, err>>

(***************************************************************************)
(* Bounds of the model.                                                    *)
(***************************************************************************)
MaxRows == 3
MaxFlatRows == 2

(***************************************************************************)
(* Generic helpers.                                                        *)
(***************************************************************************)
Front(s) == SubSeq(s, 1, Len(s) - 1)

Val(v) == [kind |-> "val", val |-> v]

NoneVal == [kind |-> "none"]

Raise(e) == [kind |-> "raise", err |-> e]

DictPop(d, key) == [k \in (DOMAIN d) \ {key} |-> d[k]]

DictSet(d, key, v) == [k \in (DOMAIN d) \cup {key} |-> IF k = key THEN v ELSE d[k]]

Has(d, key) == key \in DOMAIN d

RECURSIVE SeqsUpTo(_, _)
SeqsUpTo(S, n) ==
  IF n = 0 THEN {<<>>}
  ELSE LET shorter == SeqsUpTo(S, n - 1)
       IN shorter \cup {Append(s, x) : s \in {t \in shorter : Len(t) = n - 1}, x \in S}

(***************************************************************************)
(* The program's constants.                                                *)
(***************************************************************************)
FIELD_MAP ==
  [c \in {"Task ID", "Type", "Name", "Status", "Project", "Context",
          "Start Date", "Due Date", "Completion Date", "Duration",
          "Flagged", "Notes"} |->
     CASE c = "Task ID" -> "project-tree-id"
       [] c = "Name" -> "description"
       [] c = "Project" -> "project"
       [] c = "Context" -> "tags"
       [] c = "Start Date" -> "scheduled"
       [] c = "Due Date" -> "due"
       [] c = "Completion Date" -> "end"
       [] c = "Flagged" -> "priority"
       [] c = "Notes" -> "notes"
       [] OTHER -> "None"]

NOTES_NEWLINE == <<"#", "#", "#", "N", "E", "W", "L", "I", "N", "E", "#", "#", "#">>

output_filemode == IF options.append_to_file THEN "w+" ELSE "w"

(***************************************************************************)
(* str.title() and re.sub(r'\W+', '', s) over the model's alphabet.        *)
(***************************************************************************)
LowerLetters == {"a", "b", "e", "n", "o"}

UpperLetters == {"A", "B", "E", "N", "O"}

IsCased(c) == c \in LowerLetters \cup UpperLetters

IsWordChar(c) == IsCased(c) \/ c \in {"1", "_"}

ToUpper(c) ==
  CASE c = "a" -> "A" [] c = "b" -> "B" [] c = "e" -> "E"
    [] c = "n" -> "N" [] c = "o" -> "O" [] OTHER -> c

ToLower(c) ==
  CASE c = "A" -> "a" [] c = "B" -> "b" [] c = "E" -> "e"
    [] c = "N" -> "n" [] c = "O" -> "o" [] OTHER -> c

RECURSIVE TitleFrom(_, _)
TitleFrom(s, prevCased) ==
  IF s = <<>> THEN <<>>
  ELSE LET c == Head(s)
       IN IF IsCased(c)
          THEN <<IF prevCased THEN ToLower(c) ELSE ToUpper(c)>> \o TitleFrom(Tail(s), TRUE)
          ELSE <<c>> \o TitleFrom(Tail(s), FALSE)

Title(s) == TitleFrom(s, FALSE)

StripNonWord(s) == SelectSeq(s, IsWordChar)

\* re.sub('\r?\n', NOTES_NEWLINE, val)
RECURSIVE SubNewlines(_)
SubNewlines(s) ==
  IF s = <<>> THEN <<>>
  ELSE IF Head(s) = "LF" THEN NOTES_NEWLINE \o SubNewlines(Tail(s))
  ELSE IF Head(s) = "CR" /\ Len(s) >= 2 /\ s[2] = "LF"
       THEN NOTES_NEWLINE \o SubNewlines(Tail(Tail(s)))
  ELSE <<Head(s)>> \o SubNewlines(Tail(s))

\* '.'.join(list) of text values
RECURSIVE Join(_)
Join(names) ==
  IF names = <<>> THEN <<>>
  ELSE IF Len(names) = 1 THEN names[1]
  ELSE names[1] \o <<".">> \o Join(Tail(names))

RECURSIVE Reverse(_)
Reverse(s) == IF s = <<>> THEN <<>> ELSE Append(Reverse(Tail(s)), Head(s))

(***************************************************************************)
(* Time.  A date cell is <<>> when empty, <<"ts", day, hour>> when it       *)
(* matches "YYYY-MM-DD HH:mm:ss" (read as UTC by pendulum.from_format) and  *)
(* <<"garbage">> when it does not; the rendered form is                     *)
(* <<"iso", day, hour>>.                                                    *)
(***************************************************************************)
current_time_iso(now) == <<"now", now>>

to_iso_string(utc, date_only) ==
  LET total == utc[2] * 24 + utc[3]
      localDay == (total + tz) \div 24
      midnightUtc == localDay * 24 - tz
      t == IF date_only THEN midnightUtc ELSE total
  IN <<"iso", t \div 24, t % 24>>

\* pendulum.from_format(val, "YYYY-MM-DD HH:mm:ss") parses val
IsTimestamp(val) == Len(val) = 3 /\ val[1] = "ts"

is_flagged(priority) == priority # "0"

\* Truthiness of a converted value, as tested by "if converted_value:".
\* Flag and context cells are strings, every other cell is a sequence.
Truthy(colname, v) ==
  v.kind = "val" /\ v.val # (IF colname = "priority" THEN "" ELSE <<>>)

convert_column_value(colname, val) ==
  IF colname \in {"scheduled", "due", "end"}
  THEN IF val # <<>>
       THEN IF IsTimestamp(val)
            THEN Val(to_iso_string(val, options.date_only))
            ELSE Raise("ValueError")
       ELSE NoneVal
  ELSE IF colname = "priority"
  THEN IF options.flagged_to_high_priority
       THEN IF is_flagged(val) THEN Val("H") ELSE NoneVal
       ELSE IF options.flagged_as_tag THEN Val(val) ELSE NoneVal
  ELSE IF colname = "tags"
  THEN IF options.context_as_tag /\ val # "" THEN Val(<<val>>) ELSE NoneVal
  ELSE IF colname = "notes"
  THEN IF options.export_notes
       THEN IF val # <<>> THEN Val(SubNewlines(val)) ELSE Val(val)
       ELSE NoneVal
  ELSE Val(val)

(***************************************************************************)
(* Field Mapper.                                                           *)
(***************************************************************************)
\* The body of transform_row's loop from cell i on.  A cell beyond the
\* header raises IndexError, which is caught and leaves colname None.
RECURSIVE TransformFrom(_, _, _, _)
TransformFrom(cols, row, i, json_row) ==
  IF i > Len(row) THEN Val(json_row)
  ELSE LET colname == IF i <= Len(cols) THEN cols[i] ELSE "None"
       IN IF colname \in DOMAIN FIELD_MAP /\ FIELD_MAP[colname] # "None"
          THEN LET mapped_colname == FIELD_MAP[colname]
                   converted_value == convert_column_value(mapped_colname, row[i])
               IN IF converted_value.kind = "raise" THEN converted_value
                  ELSE IF Truthy(mapped_colname, converted_value)
                  THEN TransformFrom(cols, row, i + 1,
                                     DictSet(json_row, mapped_colname, converted_value.val))
                  ELSE TransformFrom(cols, row, i + 1, json_row)
          ELSE TransformFrom(cols, row, i + 1, json_row)

transform_row(cols, row) == TransformFrom(cols, row, 1, <<>>)

(***************************************************************************)
(* Project Tree Resolver.                                                  *)
(***************************************************************************)
RECURSIVE FindFrom(_, _, _)
FindFrom(project_tree_id, data, i) ==
  IF i > Len(data) THEN NoneVal
  ELSE IF ~Has(data[i], "project-tree-id") THEN Raise("KeyError")
  ELSE IF project_tree_id = data[i]["project-tree-id"]
       THEN IF Has(data[i], "description")
            THEN Val(data[i]["description"])
            ELSE Raise("KeyError")
  ELSE FindFrom(project_tree_id, data, i + 1)

find_description_by_project_tree_id(project_tree_id, data) ==
  FindFrom(project_tree_id, data, 1)

\* "%s.1" % tree_id
FirstChild(tree_id) == Append(tree_id, "1")

\* is_task with the lookup of the first child left out
is_task_without_lookup(row, data) ==
  IF ~Has(row, "project-tree-id") THEN Raise("KeyError") ELSE Val(TRUE)

is_task(row, data) ==
  IF ~Has(row, "project-tree-id") THEN Raise("KeyError")
  ELSE LET found == find_description_by_project_tree_id(
                      FirstChild(row["project-tree-id"]), data)
       IN IF found.kind = "raise" THEN found
          ELSE IF found.kind = "val" /\ found.val # <<>> THEN Val(FALSE)
          ELSE Val(TRUE)

has_project_notes(row) == Has(row, "notes") /\ row["notes"] # <<>>

\* description is what find_description_by_project_tree_id returned.
adjust_project_name(description) ==
  IF options.standardize_project_names
  THEN IF description.kind = "none" THEN Raise("AttributeError")
       ELSE Val(StripNonWord(Title(description.val)))
  ELSE description

\* The while loop of build_project_name: name_list, nearest ancestor first.
RECURSIVE NameList(_, _)
NameList(path, data) ==
  IF path = <<>> THEN Val(<<>>)
  ELSE LET description == find_description_by_project_tree_id(path, data)
       IN IF description.kind = "raise" THEN description
          ELSE LET name == adjust_project_name(description)
               IN IF name.kind = "raise" THEN name
                  ELSE LET rest == NameList(Front(path), data)
                       IN IF rest.kind = "raise" THEN rest
                          ELSE Val(<<name>> \o rest.val)

\* '.'.join(name_list): a None item is a TypeError.
JoinNames(name_list) ==
  IF \E i \in 1..Len(name_list) : name_list[i].kind = "none"
  THEN Raise("TypeError")
  ELSE Val(Join([i \in 1..Len(name_list) |-> name_list[i].val]))

build_project_name(row, data) ==
  IF ~Has(row, "project-tree-id") THEN Raise("KeyError")
  ELSE LET name_list == NameList(Front(row["project-tree-id"]), data)
       IN IF name_list.kind = "raise" THEN name_list
          ELSE JoinNames(Reverse(name_list.val))

(***************************************************************************)
(* Record Finalizer.                                                       *)
(***************************************************************************)
EndIsSet(row) == Has(row, "end") /\ row["end"] # <<>>

\* adjust_columns, lines 221-222
AssignIdentity(row, uuid, now) ==
  LET withUuid == DictSet(row, "uuid", <<"uuid", uuid>>)
  IN DictSet(withUuid, "entry",
             IF EndIsSet(withUuid) THEN withUuid["end"] ELSE current_time_iso(now))

\* SetStatus without line 227
SetStatus_without_modified(row) ==
  IF EndIsSet(row) THEN DictSet(row, "status", "completed")
  ELSE DictSet(row, "status", "pending")

\* adjust_columns, lines 224-230
SetStatus(row) ==
  IF EndIsSet(row)
  THEN DictSet(DictSet(row, "modified", row["end"]), "status", "completed")
  ELSE DictSet(row, "status", "pending")

\* adjust_columns, lines 231-233
StartDateIsWait(row) ==
  IF Has(row, "scheduled") /\ options.start_date_is_wait
  THEN DictPop(DictSet(row, "wait", row["scheduled"]), "scheduled")
  ELSE row

\* adjust_columns, lines 234-236
EnsureDescription(row) ==
  IF ~Has(row, "description")
  THEN DictSet(row, "description", <<"[", "N", "o", "n", "e", "]">>)
  ELSE row

\* adjust_columns, lines 237-243
FlaggedAsTag(row) ==
  IF ~options.flagged_to_high_priority /\ options.flagged_as_tag
  THEN IF ~Has(row, "priority") THEN Raise("KeyError")
       ELSE LET tagged ==
                  IF is_flagged(row["priority"])
                  THEN IF Has(row, "tags")
                       THEN DictSet(row, "tags", Append(row["tags"], "flagged"))
                       ELSE DictSet(row, "tags", <<"flagged">>)
                  ELSE row
            IN Val(DictPop(tagged, "priority"))
  ELSE Val(row)

\* adjust_columns, lines 244-245
DropEmptyProject(row) ==
  IF Has(row, "project") /\ row["project"] = <<>> THEN DictPop(row, "project") ELSE row

\* adjust_columns: [kind, row] where row is the dict as the call left it,
\* also when it raised (the dict is mutated in place).
adjust_columns(row, data, uuid, now) ==
  LET identified == AssignIdentity(row, uuid, now)
      project == build_project_name(identified, data)
  IN IF project.kind = "raise"
     THEN [kind |-> "raise", err |-> project.err, row |-> identified]
     ELSE LET described ==
                EnsureDescription(StartDateIsWait(SetStatus(
                  DictSet(identified, "project", project.val))))
              flagged == FlaggedAsTag(described)
          IN IF flagged.kind = "raise"
             THEN [kind |-> "raise", err |-> flagged.err, row |-> described]
             ELSE [kind |-> "val", row |-> DropEmptyProject(flagged.val)]

add_project_note(row, data, uuid, now) ==
  LET row_copy == DictSet(row, "project-tree-id", FirstChild(row["project-tree-id"]))
      project == build_project_name(row_copy, data)
  IN IF project.kind = "raise" THEN project
     ELSE Val([k \in {"uuid", "entry", "project", "status", "description", "notes"} |->
                 CASE k = "uuid" -> <<"uuid", uuid>>
                   [] k = "entry" -> current_time_iso(now)
                   [] k = "project" -> project.val
                   [] k = "status" -> "pending"
                   [] k = "description" -> <<"N", "o", "t", "e", "s">>
                   [] k = "notes" -> SubNewlines(row["notes"])])

\* clean_columns without the pop
clean_columns_without_pop(task_row) == task_row

clean_columns(task_row) == DictPop(task_row, "project-tree-id")

(***************************************************************************)
(* Emitter and files.                                                      *)
(***************************************************************************)
\* json.dumps(data) + "\n": one line holding the dict's items
json_dumps(data) == <<"json", data>>

\* open(name, mode) on an existing file: "w" and "w+" both truncate it.
OpenFile(mode, content) == IF mode \in {"w", "w+"} THEN <<>> ELSE content

\* WriteOrder with the two loops of lines 297-301 swapped
WriteOrder_tasks_first(notes, tasks) ==
  [i \in 1..Len(tasks) |-> [kind |-> "task", pos |-> i]]
    \o [i \in 1..Len(notes) |-> [kind |-> "note", pos |-> i]]

\* generate_json, lines 297-301: the order in which the two lists are written
WriteOrder(notes, tasks) ==
  [i \in 1..Len(notes) |-> [kind |-> "note", pos |-> i]]
    \o [i \in 1..Len(tasks) |-> [kind |-> "task", pos |-> i]]

(***************************************************************************)
(* Inputs.  A raw row is a sequence of cells aligned with the header; the  *)
(* flag and context cells are strings, the others sequences.               *)
(***************************************************************************)
Header == <<"Task ID", "Type", "Name", "Status", "Project", "Context",
            "Start Date", "Due Date", "Completion Date", "Duration",
            "Flagged", "Notes">>

MkRow(id, name, ctx, start, due, end, flag, notes) ==
  <<id, "Action", name, "active", <<"a">>, ctx, start, due, end, "", flag, notes>>

DefaultOptions ==
  [append_to_file |-> FALSE, date_only |-> FALSE, start_date_is_wait |-> FALSE,
   context_as_tag |-> FALSE, flagged_to_high_priority |-> FALSE,
   flagged_as_tag |-> FALSE, standardize_project_names |-> FALSE,
   export_notes |-> FALSE]

SomeName == <<"a", " ", "b">>

SomeNotes == <<"a", "CR", "LF", "b", "LF">>

EarlyTs == <<"ts", 1, 23>>

LateTs == <<"ts", 2, 10>>

OldLines == <<json_dumps([uuid |-> <<"uuid", 0>>]),
              json_dumps([uuid |-> <<"uuid", 0>>, status |-> "pending"])>>

\* Rows of a project tree: nodes 1, 1.1, 1.2 and 1.1.1, the inner nodes with
\* and without a name and notes, and a row whose Task ID cell is empty.
TreeRow(id, name, notes) == MkRow(id, name, "", <<>>, <<>>, <<>>, "0", notes)

TreeRows ==
  {TreeRow(<<"1">>, name, notes) : name \in {<<>>, SomeName}, notes \in {<<>>, SomeNotes}}
  \cup {TreeRow(<<"1", "1">>, SomeName, <<>>), TreeRow(<<"1", "1">>, SomeName, SomeNotes),
        TreeRow(<<"1", "1">>, <<>>, <<>>), TreeRow(<<"1", "2">>, SomeName, <<>>),
        TreeRow(<<"1", "1", "1">>, SomeName, <<>>), TreeRow(<<>>, SomeName, <<>>)}

\* Top-level rows over every flag and context cell, rows cut short (an empty
\* line, the Task ID alone, up to the name, up to and without the flag), and
\* a row with one cell more than the header.
FullRow == MkRow(<<"1">>, SomeName, "home", EarlyTs, LateTs, <<>>, "1", SomeNotes)

ShortLengths == {0, 1, 3, Len(Header) - 2, Len(Header) - 1}

FlagRows ==
  {MkRow(<<"1">>, SomeName, ctx, <<>>, <<>>, <<>>, flag, <<>>) :
     ctx \in {"", "home"}, flag \in {"", "0", "1"}}
  \cup {SubSeq(FullRow, 1, n) : n \in ShortLengths}
  \cup {Append(FullRow, "extra")}

\* Top-level rows over the start and completion cells, with and without a
\* due date.
DateRows ==
  {MkRow(<<"1">>, SomeName, "", start, LateTs, end, "0", <<>>) :
     start \in {<<>>, EarlyTs}, end \in {<<>>, EarlyTs, <<"garbage">>}}
  \cup {MkRow(<<"1">>, SomeName, "", <<>>, <<>>, <<>>, "0", <<>>)}

TreeOptions ==
  {[DefaultOptions EXCEPT !.export_notes = e, !.standardize_project_names = s] :
     e \in BOOLEAN, s \in BOOLEAN}

FlagOptions ==
  {[DefaultOptions EXCEPT !.flagged_to_high_priority = h, !.flagged_as_tag = t,
                          !.context_as_tag = c] :
     h \in BOOLEAN, t \in BOOLEAN, c \in BOOLEAN}

DateOptions ==
  {[DefaultOptions EXCEPT !.date_only = d, !.start_date_is_wait = w,
                          !.append_to_file = a] :
     d \in BOOLEAN, w \in BOOLEAN, a \in BOOLEAN}

InitRun(opts, zone, before, rows) ==
  /\ options = opts
  /\ tz = zone
  /\ input = <<Header>> \o rows
  /\ csvfile = input
  /\ file_before = before
  /\ json_file = before
  /\ column_names = <<>>
  /\ transformed_data = <<>>
  /\ task_rows = <<>>
  /\ project_notes_rows = <<>>
  /\ emitted = <<>>
  /\ idx = 1
  /\ uuids = 0
  /\ clock = 0
  /\ pc = "open"
  /\ err = "None"

\* Each family of runs varies one group of options against the cells those
\* options read.
Init ==
  \/ \E opts \in TreeOptions, rows \in SeqsUpTo(TreeRows, MaxRows) :
       InitRun(opts, 0, <<>>, rows)
  \/ \E opts \in FlagOptions, rows \in SeqsUpTo(FlagRows, MaxFlatRows) :
       InitRun(opts, 0, <<>>, rows)
  \/ \E opts \in DateOptions, rows \in SeqsUpTo(DateRows, MaxFlatRows),
        before \in {<<>>, OldLines} :
       \E zone \in (IF opts.date_only THEN {0, 2} ELSE {0}) :
         InitRun(opts, zone, before, rows)

(***************************************************************************)
(* The main block, lines 303-308.                                          *)
(***************************************************************************)
Fail(e) == pc' = "failed" /\ err' = e

\* with open(options.output_filename, output_filemode) as json_file
OpenOutput ==
  /\ pc = "open"
  /\ json_file' = OpenFile(output_filemode, json_file)
  /\ pc' = "read"
  /\ UNCHANGED <<options, tz, input, csvfile, file_before, column_names, transformed_data,
                 task_rows, project_notes_rows, emitted, idx, uuids, clock, err>>

\* transform_data: the first (non-empty) row becomes column_names
ReadHeader ==
  /\ pc = "read"
  /\ csvfile # <<>>
  /\ column_names = <<>>
  /\ column_names' = Head(csvfile)
  /\ csvfile' = Tail(csvfile)
  /\ UNCHANGED <<options, tz, input, file_before, json_file, transformed_data, task_rows,
                 project_notes_rows, emitted, idx, uuids, clock, pc, err>>

\* transform_data: one data row is mapped and appended
TransformRow ==
  /\ pc = "read"
  /\ csvfile # <<>>
  /\ column_names # <<>>
  /\ LET transformed_row == transform_row(column_names, Head(csvfile))
     IN /\ transformed_row.kind = "val"
        /\ transformed_data' = Append(transformed_data, transformed_row.val)
  /\ csvfile' = Tail(csvfile)
  /\ UNCHANGED <<options, tz, input, file_before, json_file, column_names, task_rows,
                 project_notes_rows, emitted, idx, uuids, clock, pc, err>>

\* transform_data: a date cell does not parse and the run aborts
TransformRaises ==
  /\ pc = "read"
  /\ csvfile # <<>>
  /\ column_names # <<>>
  /\ LET transformed_row == transform_row(column_names, Head(csvfile))
     IN /\ transformed_row.kind = "raise"
        /\ Fail(transformed_row.err)
  /\ UNCHANGED <<options, tz, input, csvfile, file_before, json_file, column_names,
                 transformed_data, task_rows, project_notes_rows, emitted, idx,
                 uuids, clock>>

\* the reader is exhausted: generate_json(transformed_data) starts
EndOfData ==
  /\ pc = "read"
  /\ csvfile = <<>>
  /\ pc' = "generate"
  /\ idx' = 1
  /\ UNCHANGED <<options, tz, input, csvfile, file_before, json_file, column_names,
                 transformed_data, task_rows, project_notes_rows, emitted, uuids,
                 clock, err>>

InLoop == pc = "generate" /\ idx <= Len(transformed_data)

Row == transformed_data[idx]

\* 1 when adjust_columns calls current_time_iso for this row
ClockUse(row) == IF EndIsSet(row) THEN 0 ELSE 1

\* generate_json, lines 293-294: a task row is finalized
GenTask ==
  /\ InLoop
  /\ LET task == is_task(Row, transformed_data)
     IN /\ task.kind = "val" /\ task.val
        /\ LET adjusted == adjust_columns(Row, transformed_data, uuids + 1, clock + 1)
           IN /\ adjusted.kind = "val"
              /\ transformed_data' = [transformed_data EXCEPT ![idx] = adjusted.row]
  /\ task_rows' = Append(task_rows, idx)
  /\ uuids' = uuids + 1
  /\ clock' = clock + ClockUse(Row)
  /\ idx' = idx + 1
  /\ UNCHANGED <<options, tz, input, csvfile, file_before, json_file, column_names,
                 project_notes_rows, emitted, pc, err>>

\* generate_json, lines 295-296: a project node yields a "Notes" record
GenProjectNote ==
  /\ InLoop
  /\ LET task == is_task(Row, transformed_data)
     IN /\ task.kind = "val" /\ ~task.val
        /\ options.export_notes /\ has_project_notes(Row)
        /\ LET note == add_project_note(Row, transformed_data, uuids + 1, clock + 1)
           IN /\ note.kind = "val"
              /\ project_notes_rows' =
                   Append(project_notes_rows, [src |-> idx, rec |-> note.val])
  /\ uuids' = uuids + 1
  /\ clock' = clock + 1
  /\ idx' = idx + 1
  /\ UNCHANGED <<options, tz, input, csvfile, file_before, json_file, column_names,
                 transformed_data, task_rows, emitted, pc, err>>

\* generate_json: a project node that yields nothing
GenSkipProject ==
  /\ InLoop
  /\ LET task == is_task(Row, transformed_data)
     IN task.kind = "val" /\ ~task.val
  /\ ~(options.export_notes /\ has_project_notes(Row))
  /\ idx' = idx + 1
  /\ UNCHANGED <<options, tz, input, csvfile, file_before, json_file, column_names,
                 transformed_data, task_rows, project_notes_rows, emitted, uuids,
                 clock, pc, err>>

\* generate_json: is_task, adjust_columns or add_project_note raises
GenRaises ==
  /\ InLoop
  /\ LET task == is_task(Row, transformed_data)
     IN \/ /\ task.kind = "raise"
           /\ Fail(task.err)
           /\ UNCHANGED <<transformed_data, uuids, clock>>
        \/ /\ task.kind = "val" /\ task.val
           /\ LET adjusted == adjust_columns(Row, transformed_data, uuids + 1, clock + 1)
              IN /\ adjusted.kind = "raise"
                 /\ Fail(adjusted.err)
                 /\ transformed_data' = [transformed_data EXCEPT ![idx] = adjusted.row]
           /\ uuids' = uuids + 1
           /\ clock' = clock + ClockUse(Row)
        \/ /\ task.kind = "val" /\ ~task.val
           /\ options.export_notes /\ has_project_notes(Row)
           /\ LET note == add_project_note(Row, transformed_data, uuids + 1, clock + 1)
              IN /\ note.kind = "raise"
                 /\ Fail(note.err)
           /\ uuids' = uuids + 1
           /\ clock' = clock + 1
           /\ UNCHANGED transformed_data
  /\ UNCHANGED <<options, tz, input, csvfile, file_before, json_file, column_names,
                 task_rows, project_notes_rows, emitted, idx>>

\* generate_json: the classification loop is over
GenDone ==
  /\ pc = "generate"
  /\ idx > Len(transformed_data)
  /\ pc' = "write"
  /\ idx' = 1
  /\ UNCHANGED <<options, tz, input, csvfile, file_before, json_file, column_names,
                 transformed_data, task_rows, project_notes_rows, emitted, uuids,
                 clock, err>>

\* generate_json, lines 297-301: what is still to be written, in order
Schedule ==
  WriteOrder(IF options.export_notes THEN project_notes_rows ELSE <<>>, task_rows)

\* write_json(project_notes_row)
WriteNote ==
  /\ pc = "write"
  /\ idx <= Len(Schedule)
  /\ Schedule[idx].kind = "note"
  /\ LET project_notes_row == project_notes_rows[Schedule[idx].pos]
     IN /\ json_file' = Append(json_file, json_dumps(project_notes_row.rec))
        /\ emitted' = Append(emitted, [kind |-> "note", src |-> project_notes_row.src,
                                       line |-> json_dumps(project_notes_row.rec)])
  /\ idx' = idx + 1
  /\ UNCHANGED <<options, tz, input, csvfile, file_before, column_names, transformed_data,
                 task_rows, project_notes_rows, uuids, clock, pc, err>>

\* write_json(clean_columns(task_row))
WriteTask ==
  /\ pc = "write"
  /\ idx <= Len(Schedule)
  /\ Schedule[idx].kind = "task"
  /\ LET src == task_rows[Schedule[idx].pos]
         task_row == clean_columns(transformed_data[src])
     IN /\ transformed_data' = [transformed_data EXCEPT ![src] = task_row]
        /\ json_file' = Append(json_file, json_dumps(task_row))
        /\ emitted' = Append(emitted, [kind |-> "task", src |-> src,
                                       line |-> json_dumps(task_row)])
  /\ idx' = idx + 1
  /\ UNCHANGED <<options, tz, input, csvfile, file_before, column_names, task_rows,
                 project_notes_rows, uuids, clock, pc, err>>

\* print("Done! ...") and both files are closed
Finish ==
  /\ pc = "write"
  /\ idx > Len(Schedule)
  /\ pc' = "done"
  /\ UNCHANGED <<options, tz, input, csvfile, file_before, json_file, column_names,
                 transformed_data, task_rows, project_notes_rows, emitted, idx,
                 uuids, clock, err>>

Next ==
  \/ OpenOutput
  \/ ReadHeader
  \/ TransformRow
  \/ TransformRaises
  \/ EndOfData
  \/ GenTask
  \/ GenProjectNote
  \/ GenSkipProject
  \/ GenRaises
  \/ GenDone
  \/ WriteNote
  \/ WriteTask
  \/ Finish

Spec == Init /\ [][Next]_vars

(***************************************************************************)
(* Vocabulary of the properties.                                           *)
(***************************************************************************)
TreeId == "project-tree-id"

Range(s) == {s[i] : i \in 1..Len(s)}

NumRecords == Len(input) - 1

\* Record i of the mapped batch, as transform_data appended it.
Mapped(i) == transform_row(input[1], input[i + 1]).val

\* Some record of the batch has the tree identifier "<id of i>.1".
HasFirstChild(i) ==
  /\ Has(Mapped(i), TreeId)
  /\ \E j \in 1..NumRecords :
       Has(Mapped(j), TreeId) /\ Mapped(j)[TreeId] = FirstChild(Mapped(i)[TreeId])

TimesWritten(kind, i) ==
  Cardinality({k \in 1..Len(emitted) : emitted[k].kind = kind /\ emitted[k].src = i})

WrittenLines == [k \in 1..Len(emitted) |-> emitted[k].line]

AllHaveTreeId(batch) == \A j \in 1..Len(batch) : Has(batch[j], TreeId)

AllHaveDescription(batch) == \A j \in 1..Len(batch) : Has(batch[j], "description")

Present(tree_id, batch) ==
  \E j \in 1..Len(batch) : Has(batch[j], TreeId) /\ batch[j][TreeId] = tree_id

AncestorIds(tree_id) == {SubSeq(tree_id, 1, n) : n \in 1..(Len(tree_id) - 1)}

\* The description of the first record of the batch with this identifier.
DescriptionOf(tree_id, batch) ==
  LET j == CHOOSE j \in 1..Len(batch) :
             /\ Has(batch[j], TreeId) /\ batch[j][TreeId] = tree_id
             /\ \A h \in 1..(j - 1) : ~(Has(batch[h], TreeId) /\ batch[h][TreeId] = tree_id)
  IN IF Has(batch[j], "description") THEN batch[j]["description"] ELSE <<>>

Standardized(description) ==
  IF options.standardize_project_names THEN StripNonWord(Title(description))
  ELSE description

\* The path the specification describes: one segment per ancestor, root
\* first, empty where the batch holds no record for the ancestor.
ExpectedPath(tree_id, batch) ==
  Join([n \in 1..(Len(tree_id) - 1) |->
          IF Present(SubSeq(tree_id, 1, n), batch)
          THEN Standardized(DescriptionOf(SubSeq(tree_id, 1, n), batch))
          ELSE <<>>])

FlaggedColumn == CHOOSE k \in 1..Len(Header) : Header[k] = "Flagged"

NameColumn == CHOOSE k \in 1..Len(Header) : Header[k] = "Name"

IsShort(row) == Len(row) < Len(input[1])

\* A full row that by itself gives the run no reason to fail: a top-level
\* node with a name, a flag and dates that parse.
WellFormedTopLevel(row) ==
  /\ Len(row) = Len(input[1])
  /\ Len(row[1]) = 1
  /\ row[3] # <<>>
  /\ row[FlaggedColumn] # ""
  /\ \A k \in {7, 8, 9} : row[k] = <<>> \/ IsTimestamp(row[k])

C2_AppendKeepsFormerLines ==
  pc = "done" =>
    json_file = (IF options.append_to_file THEN file_before ELSE <<>>) \o WrittenLines

(***************************************************************************)
(* C3 as stated: in build_project_name an ancestor identifier that matches  *)
(* no record contributes an empty segment and the call does not raise,      *)
(* with or without standardize-project-names.                               *)
(***************************************************************************)
C3_MissingAncestorIsEmptySegment ==
  (/\ InLoop
   /\ AllHaveTreeId(transformed_data) /\ AllHaveDescription(transformed_data)
   /\ is_task(Row, transformed_data) = Val(TRUE)
   /\ \E a \in AncestorIds(Row[TreeId]) : ~Present(a, transformed_data))
  => LET path == build_project_name(Row, transformed_data)
     IN /\ path.kind = "val"
        /\ path.val = ExpectedPath(Row[TreeId], transformed_data)

(***************************************************************************)
(* C4 as stated: for a task record and any value of its flag cell, with     *)
(* both flag options set priority is "H" iff the flag is not "0" and no     *)
(* "flagged" tag is added; with only flagged-as-tag set the finalized       *)
(* record has no priority and has the tag "flagged" iff the flag is not     *)
(* "0".                                                                     *)
(***************************************************************************)
C4_FlagMapping ==
  (/\ InLoop
   /\ Len(input[idx + 1]) >= FlaggedColumn
   /\ is_task(Row, transformed_data) = Val(TRUE)
   /\ build_project_name(Row, transformed_data).kind = "val"
   /\ options.flagged_as_tag)
  => LET flag == input[idx + 1][FlaggedColumn]
         adjusted == adjust_columns(Row, transformed_data, uuids + 1, clock + 1)
         final == adjusted.row
         tagged == Has(final, "tags") /\ "flagged" \in Range(final["tags"])
     IN /\ adjusted.kind = "val"
        /\ IF options.flagged_to_high_priority
           THEN /\ (Has(final, "priority") /\ final["priority"] = "H") <=> (flag # "0")
                /\ Has(final, "priority") => final["priority"] = "H"
                /\ ~tagged
           ELSE /\ ~Has(final, "priority")
                /\ tagged <=> (flag # "0")

(***************************************************************************)
(* C5: no line written to the output file holds the key "project-tree-id",  *)
(* be it a finalized task record or a synthesized "Notes" record.           *)
(***************************************************************************)
C5_TreeIdNeverWritten ==
  /\ \A k \in 1..Len(json_file) : ~Has(json_file[k][2], TreeId)
  /\ \A k \in 1..Len(emitted) : ~Has(emitted[k].line[2], TreeId)

\* A completed run that wrote a "Notes" record and a task record.
C5_Witness ==
  /\ pc = "done"
  /\ \E a, b \in 1..Len(emitted) : emitted[a].kind = "note" /\ emitted[b].kind = "task"
  /\ json_file = WrittenLines

(***************************************************************************)
(* C6: a record that adjust_columns has given a status has status           *)
(* "completed" and "modified" equal to its completion value when that       *)
(* value ("end") is non-empty, and otherwise status "pending" and no        *)
(* "modified".                                                              *)
(***************************************************************************)
C6_StatusFollowsCompletion ==
  \A i \in 1..Len(transformed_data) :
    LET row == transformed_data[i]
    IN (Has(row, "status") \/ \E p \in 1..Len(task_rows) : task_rows[p] = i) =>
         IF Has(row, "end") /\ row["end"] # <<>>
         THEN /\ Has(row, "status") /\ row["status"] = "completed"
              /\ Has(row, "modified") /\ row["modified"] = row["end"]
         ELSE /\ Has(row, "status") /\ row["status"] = "pending"
              /\ ~Has(row, "modified")

\* A completed run that wrote a completed and a pending record.
C6_Witness ==
  /\ pc = "done"
  /\ \E a, b \in 1..Len(emitted) :
       /\ emitted[a].line[2]["status"] = "completed"
       /\ Has(emitted[a].line[2], "modified")
       /\ emitted[b].line[2]["status"] = "pending"

(***************************************************************************)
(* C7: with export-notes set every "Notes" record is written before any     *)
(* task record, and within each group the records are written in the order  *)
(* of their source records in the batch.                                    *)
(***************************************************************************)
C7_NotesFirstInBatchOrder ==
  options.export_notes =>
    \A a, b \in 1..Len(emitted) :
      a < b =>
        /\ ~(emitted[a].kind = "task" /\ emitted[b].kind = "note")
        /\ emitted[a].kind = emitted[b].kind => emitted[a].src < emitted[b].src

\* A completed run that wrote a "Notes" record ahead of two task records, one
\* of which precedes the project node in the batch.
C7_Witness ==
  /\ pc = "done"
  /\ options.export_notes
  /\ \E a, b, c \in 1..Len(emitted) :
       /\ a < b /\ b < c
       /\ emitted[a].kind = "note" /\ emitted[b].kind = "task" /\ emitted[c].kind = "task"
       /\ emitted[b].src < emitted[a].src

(***************************************************************************)
(* C8 as stated: a data row with fewer cells than the header is tolerated   *)
(* under every option configuration: the run does not fail because of it    *)
(* and the remaining records are still finalized and written.  Stated here  *)
(* for the runs whose short rows still hold a Task ID and a name and whose  *)
(* full rows give no reason of their own to fail.                           *)
(***************************************************************************)
C8_ShortRowTolerated ==
  (/\ \A r \in 2..Len(input) : IsShort(input[r]) \/ WellFormedTopLevel(input[r])
   /\ \A r \in 2..Len(input) : IsShort(input[r]) => Len(input[r]) >= NameColumn
   /\ \E r \in 2..Len(input) : IsShort(input[r]))
  => /\ pc # "failed"
     /\ pc = "done" =>
          \A i \in 1..NumRecords : ~IsShort(input[i + 1]) => TimesWritten("task", i) = 1

(***************************************************************************)
(* C9 as stated: is_task(R, batch) returns true iff no record of the batch  *)
(* has the tree identifier of R followed by ".1", also when that child has  *)
(* no description.                                                          *)
(***************************************************************************)
C9_LeafIffNoFirstChild ==
  (InLoop /\ AllHaveTreeId(transformed_data))
  => LET task == is_task(Row, transformed_data)
     IN /\ task.kind = "val"
        /\ task.val <=> ~Present(FirstChild(Row[TreeId]), transformed_data)

(***************************************************************************)
(* C10 as stated: for a record whose ancestors are all in the batch,        *)
(* build_project_name returns the ancestors' descriptions, root first and   *)
(* joined with ".", never the record's own; a record with a one-segment     *)
(* identifier gets the empty path and adjust_columns leaves it without a    *)
(* project attribute.                                                       *)
(***************************************************************************)
C10_PathOfPresentAncestors ==
  (/\ InLoop
   /\ AllHaveTreeId(transformed_data)
   /\ is_task(Row, transformed_data) = Val(TRUE)
   /\ \A a \in AncestorIds(Row[TreeId]) : Present(a, transformed_data))
  => LET path == build_project_name(Row, transformed_data)
         adjusted == adjust_columns(Row, transformed_data, uuids + 1, clock + 1)
     IN /\ path.kind = "val"
        /\ path.val = ExpectedPath(Row[TreeId], transformed_data)
        /\ Len(Row[TreeId]) = 1 =>
             /\ path.val = <<>>
             /\ adjusted.kind = "val" => ~Has(adjusted.row, "project")

====
